---------------------------- MODULE Spec2Model ----------------------------
(***************************************************************************)
(* A model of the dual-pass transformation engine of mdtrans               *)
(* (src/src/transform.rs).                                                 *)
(*                                                                         *)
(* A String is a sequence of one-character strings, so that concatenation, *)
(* length and slicing are the ones of the code.  A parse tree node (a pest *)
(* Pair) is a record [rule, str, kids]: its Rule, its raw source span      *)
(* (as_str) and its inner pairs.  The renderer (the MarkdownTransformer    *)
(* the caller supplies) is a record [kind, refs, log]: which               *)
(* implementation it is, the slug -> url table it owns, and the hook       *)
(* invocations made on it so far, in order, each with its arguments and    *)
(* the value it returned.  The output stream of the streaming entry point  *)
(* is a record [buf, accepts]: the bytes written to it so far and what one *)
(* call of write does.  The hand-written parser of src/src/parse.rs has    *)
(* its own specification, SpecParse, on the variable parser.               *)
(***************************************************************************)
EXTENDS Integers, Sequences, FiniteSets, TLC

VARIABLES input, transformer, pc, res, ret, output, parser

vars == <<input, transformer, pc, res, ret, output, parser>>

-----------------------------------------------------------------------------
(* Bounds of the model.                                                    *)

\* the most children of a generated paragraph
MaxKids == 3
\* the most inline children of a generated header label
MaxLabel == 2
\* the most body lines of a generated code block
MaxLines == 2
\* the most elements of a generated list, lines of a generated quote
MaxElems == 3
\* the most render calls made on one renderer
MaxCalls == 3

-----------------------------------------------------------------------------
(* Strings.                                                                *)

RECURSIVE Concat(_)
\* Vec<String>::join("") (transform.rs:216), String += in a loop (526-528)
Concat(ss) == IF ss = <<>> THEN <<>> ELSE Head(ss) \o Concat(Tail(ss))

RECURSIVE Join(_, _)
\* Vec<String>::join(sep) (transform.rs:90, 411)
Join(ss, sep) ==
    IF ss = <<>> THEN <<>>
    ELSE IF Len(ss) = 1 THEN ss[1]
    ELSE ss[1] \o sep \o Join(Tail(ss), sep)

NL == <<"\n">>
SP == <<" ">>

\* str::to_uppercase on the letters the generated documents use
UpperChar(c) ==
    CASE c = "a" -> "A" [] c = "b" -> "B" [] c = "c" -> "C" [] c = "u" -> "U"
      [] c = "t" -> "T" [] c = "k" -> "K" [] c = "s" -> "S"
      [] OTHER -> c

ToUppercase(s) == [i \in 1..Len(s) |-> UpperChar(s[i])]

\* the decimal digit of a header level, as format!("{level}") prints it
Digit(n) ==
    CASE n = 1 -> "1" [] n = 2 -> "2" [] n = 3 -> "3"
      [] n = 4 -> "4" [] n = 5 -> "5" [] n = 6 -> "6" [] OTHER -> "?"

-----------------------------------------------------------------------------
(* HashMap<String, String>: a function from keys to values.                *)

EmptyMap == <<>>

MapInsert(m, k, v) == [x \in (DOMAIN m) \cup {k} |-> IF x = k THEN v ELSE m[x]]

MapHas(m, k) == k \in DOMAIN m

-----------------------------------------------------------------------------
(* Parse tree nodes.                                                       *)

Node(rule, str, kids) == [rule |-> rule, str |-> str, kids |-> kids]

Leaf(rule, str) == Node(rule, str, <<>>)


-----------------------------------------------------------------------------
(* The renderers.  A hook's outcome is [ret, refs, panic]: the value it    *)
(* returns (<<>> for a peek hook, which returns nothing), the renderer's   *)
(* table after the call, and whether the hook panicked.                    *)

HookRet(r, refs) == [ret |-> r, refs |-> refs, panic |-> FALSE]

HookPanic(refs) == [ret |-> <<>>, refs |-> refs, panic |-> TRUE]

\* the default methods of the trait: every peek hook does nothing, every
\* transform hook returns one of its arguments or a constant
DefaultHook(hook, args, refs) ==
    CASE hook = "transform_text" -> HookRet(args[1], refs)
      [] hook = "transform_header" -> HookRet(args[2], refs)
      [] hook = "transform_bold" -> HookRet(args[1], refs)
      [] hook = "transform_italic" -> HookRet(args[1], refs)
      [] hook = "transform_reflink" -> HookRet(args[1], refs)
      [] hook = "transform_refurl" -> HookRet(<<>>, refs)
      [] hook = "transform_link" -> HookRet(args[1], refs)
      [] hook = "transform_image" -> HookRet(args[1], refs)
      [] hook = "transform_comment" -> HookRet(args[1], refs)
      [] hook = "transform_strikethrough" -> HookRet(args[1], refs)
      [] hook = "transform_quote" -> HookRet(args[1], refs)
      [] hook = "transform_codeblock" -> HookRet(args[2], refs)
      [] hook = "transform_inline_code" -> HookRet(args[1], refs)
      [] hook = "transform_horizontal_separator" -> HookRet(<<>>, refs)
      [] hook = "transform_list" -> HookRet(Join(args[1], <<",", " ">>), refs)
      [] hook = "transform_list_element" -> HookRet(args[1], refs)
      [] hook = "transform_vertical_space" -> HookRet(NL, refs)
      [] hook = "transform_paragraph" -> HookRet(args[1], refs)
      [] hook = "finished" -> HookRet(<<>>, refs)
      [] OTHER -> HookRet(<<>>, refs)

\* the renderer of test_peek_reflink: peek_refurl records slug -> url,
\* transform_reflink looks the slug up and asserts it is there
RefsHook(hook, args, refs) ==
    CASE hook = "transform_reflink" ->
            IF MapHas(refs, args[2])
            THEN HookRet(<<"<", "a", " ", "h", "r", "e", "f", "=", "\"">> \o refs[args[2]] \o <<"\"", ">">> \o args[1] \o <<"<", "/", "a", ">">>, refs)
            ELSE HookPanic(refs)
      [] hook = "transform_refurl" -> HookRet(<<>>, refs)
      [] hook = "peek_refurl" -> HookRet(<<>>, MapInsert(refs, args[1], args[2]))
      [] OTHER -> DefaultHook(hook, args, refs)

\* add_tags.get("upper") == Some("true")
WantsUpper(add_tags) ==
    /\ MapHas(add_tags, <<"u", "p", "p", "e", "r">>)
    /\ add_tags[<<"u", "p", "p", "e", "r">>] = <<"t", "r", "u", "e">>

\* the overrides of the renderers of tests/transform.rs, in one renderer:
\* each transform hook marks what it was given
TaggingHook(hook, args, refs) ==
    CASE hook = "transform_header" ->
            HookRet(<<"h", Digit(args[1]), ":", " ">> \o args[2], refs)
      [] hook = "transform_italic" ->
            HookRet(<<"I", "T", "A", "L", "I", "C", " ">> \o args[1] \o <<" ", "I", "T", "A", "L", "I", "C">>, refs)
      [] hook = "transform_bold" ->
            HookRet(<<"B", "O", "L", "D", " ">> \o args[1] \o <<" ", "B", "O", "L", "D">>, refs)
      [] hook = "transform_link" ->
            HookRet(args[1] \o <<":", " ">> \o args[2], refs)
      [] hook = "transform_quote" ->
            HookRet(<<"Q", "U", "O", "T", "E", "\n">> \o args[1] \o <<"\n", "Q", "U", "O", "T", "E">>, refs)
      [] hook = "transform_codeblock" ->
            HookRet(<<"\n", "C", "O", "D", "E", "B", "L", "O", "C", "K">>
                    \o (IF args[1][1] = "Some" THEN SP \o args[1][2] ELSE <<>>)
                    \o NL \o args[2] \o <<"\n", "C", "O", "D", "E", "B", "L", "O", "C", "K", "\n">>, refs)
      [] hook = "transform_inline_code" ->
            HookRet(<<"C", "O", "D", "E", " ">> \o args[1] \o <<" ", "C", "O", "D", "E">>, refs)
      [] hook = "transform_horizontal_separator" ->
            HookRet(<<"\n", "=", "=", "=", " ", "H", "O", "R", "I", "Z", " ", "S", "E", "P", "A", "R", "A", "T", "O", "R", " ", "=", "=", "=", "\n">>, refs)
      [] hook = "transform_list" ->
            HookRet(NL \o Join(args[1], <<",", " ">>) \o NL, refs)
      [] hook = "transform_list_element" -> HookRet(args[1], refs)
      [] hook = "transform_comment" ->
            HookRet(<<"C", "O", "M", "M", "E", "N", "T", " ">> \o args[1] \o <<" ", "C", "O", "M", "M", "E", "N", "T">>, refs)
      [] hook = "transform_strikethrough" ->
            HookRet(<<"S", "T", "R", "I", "K", "E", " ">> \o args[1] \o <<" ", "S", "T", "R", "I", "K", "E">>, refs)
      [] hook = "transform_image" ->
            HookRet((IF WantsUpper(args[3]) THEN ToUppercase(args[1]) ELSE args[1])
                    \o <<" ", "-", ">", " ">>
                    \o (IF WantsUpper(args[3]) THEN ToUppercase(args[2]) ELSE args[2]), refs)
      [] OTHER -> DefaultHook(hook, args, refs)

\* a renderer that rewrites text and closes its output: transform_text
\* upper-cases, finished returns a footer
UpperHook(hook, args, refs) ==
    CASE hook = "transform_text" -> HookRet(ToUppercase(args[1]), refs)
      [] hook = "finished" -> HookRet(<<"e", "n", "d">>, refs)
      [] OTHER -> DefaultHook(hook, args, refs)

Renderers == {"Default", "Refs", "Tagging", "Upper"}

\* HookImpl, were the default of a hook that has no text to pass through
\* to signal that the capability is not implemented
HookImplUnimplemented(kind, hook, args, refs) ==
    CASE kind = "Refs" -> RefsHook(hook, args, refs)
      [] kind = "Tagging" -> TaggingHook(hook, args, refs)
      [] kind = "Upper" -> UpperHook(hook, args, refs)
      [] OTHER ->
            IF hook \in {"transform_image", "transform_refurl",
                         "transform_horizontal_separator"}
            THEN HookPanic(refs)
            ELSE DefaultHook(hook, args, refs)

\* the renderer's method: the override of its kind, else the default
HookImpl(kind, hook, args, refs) ==
    CASE kind = "Refs" -> RefsHook(hook, args, refs)
      [] kind = "Tagging" -> TaggingHook(hook, args, refs)
      [] kind = "Upper" -> UpperHook(hook, args, refs)
      [] OTHER -> DefaultHook(hook, args, refs)

\* let x = v; e: v is evaluated once and named in e
Bind(v, e(_)) == e(v)

\* one invocation of a hook on the renderer, recorded in its log
Call(tr, hook, args) ==
    Bind(HookImpl(tr.kind, hook, args, tr.refs), LAMBDA r :
        [ret |-> r.ret, panic |-> r.panic,
         tr |-> [kind |-> tr.kind, refs |-> r.refs,
                 log |-> Append(tr.log, [hook |-> hook, args |-> args, ret |-> r.ret])]])

-----------------------------------------------------------------------------
(* ParseState and the results of the engine's methods.                     *)

ParseStateDefault == [peek |-> FALSE, add_space |-> FALSE]

ParseStatePeek == [ParseStateDefault EXCEPT !.peek = TRUE]

\* what act_on_pair leaves behind: the text it returns, the ParseState it
\* was given (a &mut), the renderer, and whether it panicked on the way
Out(text, state, tr) == [text |-> text, state |-> state, tr |-> tr, panic |-> FALSE]

Panicked(state, tr) == [text |-> <<>>, state |-> state, tr |-> tr, panic |-> TRUE]

\* usize subtraction a - b.  Below zero a debug build panics at the
\* subtraction; a release build wraps to a value above any length, and the
\* check that follows it (the assert of get_inner_elements, the slice of
\* get_whole_block) panics: every build panics, which ok = FALSE records.
UsizeSub(a, b) == IF a >= b THEN [ok |-> TRUE, val |-> a - b] ELSE [ok |-> FALSE, val |-> 0]

next_inner_string(inner) == inner[1].str

is_raw_text(rule) == rule \in {"text", "link_text", "code", "img_tag_key", "img_tag_val"}

is_inline(rule) == rule \in {"text", "link_text", "code", "image", "bold", "italic", "link"}

HeaderLevels == 1 .. 6

HeaderRule(level) ==
    CASE level = 1 -> "h1" [] level = 2 -> "h2" [] level = 3 -> "h3"
      [] level = 4 -> "h4" [] level = 5 -> "h5" [] level = 6 -> "h6"

HeaderRules == {HeaderRule(l) : l \in HeaderLevels}

LevelOf(rule) == CHOOSE l \in HeaderLevels : HeaderRule(l) = rule

ContainerRules == {"file", "rich_txt", "quote_txt", "bold_text", "italic_text"}

\* SoftSpace, were add_space left set once the space is emitted
SoftSpaceNoReset(state, rule) ==
    IF state.add_space /\ is_inline(rule)
    THEN [text |-> SP, state |-> state]
    ELSE [text |-> <<>>, state |-> state]

\* the soft space: a pending add_space is spent on the next inline pair
SoftSpace(state, rule) ==
    IF state.add_space /\ is_inline(rule)
    THEN [text |-> SP, state |-> [state EXCEPT !.add_space = FALSE]]
    ELSE [text |-> <<>>, state |-> state]

\* Dispatch, were the engine to put a newline before and after the text a
\* block construct's transform hook returns
DispatchBlockWrapped(text, state, tr, construct, args) ==
    Bind(Call(tr, (IF state.peek THEN "peek_" ELSE "transform_") \o construct, args),
         LAMBDA c : IF c.panic THEN Panicked(state, c.tr)
                    ELSE Out(IF state.peek THEN text
                             ELSE IF construct \in {"header", "codeblock",
                                                    "horizontal_separator", "list"}
                                  THEN text \o NL \o c.ret \o NL
                                  ELSE text \o c.ret,
                             state, c.tr))

\* if state.peek { peek_x(args) } else { text += transform_x(args) }
Dispatch(text, state, tr, construct, args) ==
    Bind(Call(tr, (IF state.peek THEN "peek_" ELSE "transform_") \o construct, args),
         LAMBDA c : IF c.panic THEN Panicked(state, c.tr)
                    ELSE Out(IF state.peek THEN text ELSE text \o c.ret, state, c.tr))

act_on_raw_text(state, text, tr) ==
    IF state.peek
    THEN Bind(Call(tr, "peek_text", <<text>>),
              LAMBDA c : IF c.panic THEN Panicked(state, c.tr) ELSE Out(<<>>, state, c.tr))
    ELSE Bind(Call(tr, "transform_text", <<text>>),
              LAMBDA c : IF c.panic THEN Panicked(state, c.tr) ELSE Out(c.ret, state, c.tr))

RECURSIVE WholeBuffer(_, _)
\* the loop of get_whole_block: every line followed by the separator
WholeBuffer(inner, join) ==
    IF inner = <<>> THEN <<>>
    ELSE Head(inner).str \o join \o WholeBuffer(Tail(inner), join)

\* buffer[..end], end = buffer.len() - join.len()
SliceTo(buffer, end) ==
    IF end.ok THEN [ok |-> TRUE, text |-> SubSeq(buffer, 1, end.val)]
    ELSE [ok |-> FALSE, text |-> <<>>]

\* get_whole_block, were the separator after the last line kept
GetWholeBlockKeepJoin(inner, join) == [ok |-> TRUE, text |-> WholeBuffer(inner, join)]

get_whole_block(inner, join) ==
    Bind(WholeBuffer(inner, join),
         LAMBDA buffer : SliceTo(buffer, UsizeSub(Len(buffer), Len(join))))

RECURSIVE act_on_pair(_, _, _)
RECURSIVE ActEach(_, _, _)

\* pairs.map(|p| self.act_on_pair(state, p)).collect(): the pairs in order
\* on one ParseState, the texts collected; a panic ends it
ActEach(state, pairs, tr) ==
    IF pairs = <<>>
    THEN [texts |-> <<>>, state |-> state, tr |-> tr, panic |-> FALSE]
    ELSE Bind(act_on_pair(state, Head(pairs), tr), LAMBDA h :
            IF h.panic
            THEN [texts |-> <<>>, state |-> h.state, tr |-> h.tr, panic |-> TRUE]
            ELSE [ActEach(h.state, Tail(pairs), h.tr) EXCEPT !.texts = <<h.text>> \o @])

\* get_rich_text, were the clone to keep the peek flag of the pass
GetRichTextKeepPeek(state, pair, tr) == act_on_pair(state, pair, tr)

\* the header's label: its child acted on with a clone of the state whose
\* peek flag is cleared
get_rich_text(state, pair, tr) ==
    act_on_pair([state EXCEPT !.peek = FALSE], pair, tr)

\* the first nb pairs of inner on a clone of the state, concatenated
get_inner_elements(state, nb, inner, tr) ==
    IF ~(nb.ok /\ nb.val <= Len(inner))
    THEN [text |-> <<>>, tr |-> tr, panic |-> TRUE]
    ELSE Bind(ActEach(state, SubSeq(inner, 1, nb.val), tr), LAMBDA r :
            [text |-> Concat(r.texts), tr |-> r.tr, panic |-> r.panic])

RECURSIVE MetadataLoop(_, _, _, _)
\* the loop of get_metadata over the key/value pairs: each pair's key and
\* value are acted on with one clone of the state
MetadataLoop(state, all_data, md, tr) ==
    IF all_data = <<>> \/ Len(Head(all_data).kids) < 2
    THEN [md |-> md, tr |-> tr, panic |-> FALSE]
    ELSE Bind(act_on_pair(state, Head(all_data).kids[1], tr), LAMBDA k :
            IF k.panic THEN [md |-> md, tr |-> k.tr, panic |-> TRUE]
            ELSE Bind(act_on_pair(k.state, Head(all_data).kids[2], k.tr), LAMBDA v :
                    IF v.panic THEN [md |-> md, tr |-> v.tr, panic |-> TRUE]
                    ELSE MetadataLoop(state, Tail(all_data),
                                      MapInsert(md, k.text, v.text), v.tr)))

get_metadata(state, all_data, tr) == MetadataLoop(state, all_data, EmptyMap, tr)

-----------------------------------------------------------------------------
(* The arms of the match of act_on_pair.  text is what act_on_pair has     *)
(* accumulated so far (the soft space), inner the pair's inner pairs.      *)

\* ActHeader, were a header without exactly one inner pair passed over
ActHeaderNoAssert(text, state, inner, tr, level) ==
    IF Len(inner) # 1 THEN Out(text, state, tr)
    ELSE Bind(get_rich_text(state, inner[1], tr), LAMBDA h :
            IF h.panic THEN Panicked(state, h.tr)
            ELSE Dispatch(text, state, h.tr, "header", <<level, h.text>>))

\* h1 .. h6
ActHeader(text, state, inner, tr, level) ==
    IF Len(inner) # 1 THEN Panicked(state, tr)
    ELSE Bind(get_rich_text(state, inner[1], tr), LAMBDA h :
            IF h.panic THEN Panicked(state, h.tr)
            ELSE Dispatch(text, state, h.tr, "header", <<level, h.text>>))

\* ActInner, were the hook given the raw source text of the inner pairs
ActInnerRaw(text, state, inner, tr, construct) ==
    Dispatch(text, state, tr, construct,
             <<Concat([i \in 1..Len(inner) |-> inner[i].str])>>)

\* italic, bold, list_element, paragraph: all the inner pairs, then the hook
ActInner(text, state, inner, tr, construct) ==
    Bind(get_inner_elements(state, UsizeSub(Len(inner), 0), inner, tr), LAMBDA g :
        IF g.panic THEN Panicked(state, g.tr)
        ELSE Dispatch(text, state, g.tr, construct, <<g.text>>))

\* ActLink, were the destination handed to the text hook like the label
ActLinkHooked(text, state, inner, tr, construct) ==
    Bind(get_inner_elements(state, UsizeSub(Len(inner), 1), inner, tr), LAMBDA g :
        IF g.panic THEN Panicked(state, g.tr)
        ELSE Bind(act_on_raw_text(state, inner[Len(inner)].str, g.tr), LAMBDA u :
                Dispatch(text, state, u.tr, construct, <<g.text, u.text>>)))

\* link, reflink: all the inner pairs but the last, whose raw text is the
\* destination
ActLink(text, state, inner, tr, construct) ==
    Bind(get_inner_elements(state, UsizeSub(Len(inner), 1), inner, tr), LAMBDA g :
        IF g.panic THEN Panicked(state, g.tr)
        ELSE Dispatch(text, state, g.tr, construct,
                      <<g.text, next_inner_string(SubSeq(inner, Len(inner), Len(inner)))>>))

ActRefurl(text, state, inner, tr) ==
    IF Len(inner) # 2 THEN Panicked(state, tr)
    ELSE Dispatch(text, state, tr, "refurl",
                  <<next_inner_string(inner), next_inner_string(Tail(inner))>>)

\* the lines before the first inner pair that is no quote_line
QuoteLinesBefore(inner) ==
    IF \A i \in 1..Len(inner) : inner[i].rule = "quote_line" THEN inner
    ELSE SubSeq(inner, 1,
                (CHOOSE i \in 1..Len(inner) :
                    /\ inner[i].rule # "quote_line"
                    /\ \A j \in 1..(i - 1) : inner[j].rule = "quote_line") - 1)

\* ActQuote, were every line ended by a newline, the last one too
ActQuoteLineEnded(text, state, inner, tr) ==
    Bind(ActEach(state, QuoteLinesBefore(inner), tr), LAMBDA lines :
        IF lines.panic \/ QuoteLinesBefore(inner) # inner
        THEN Panicked(lines.state, lines.tr)
        ELSE Dispatch(text, lines.state, lines.tr, "quote",
                      <<Concat([i \in 1..Len(lines.texts) |-> lines.texts[i] \o NL])>>))

ActQuote(text, state, inner, tr) ==
    Bind(ActEach(state, QuoteLinesBefore(inner), tr), LAMBDA lines :
        IF lines.panic \/ QuoteLinesBefore(inner) # inner
        THEN Panicked(lines.state, lines.tr)
        ELSE Dispatch(text, lines.state, lines.tr, "quote", <<Join(lines.texts, NL)>>))

ActQuoteLine(text, state, inner, tr) ==
    Bind(get_inner_elements(state, UsizeSub(Len(inner), 0), inner, tr), LAMBDA g :
        IF g.panic THEN Panicked(state, g.tr) ELSE Out(text \o g.text, state, g.tr))

\* the language tag: the first inner pair when it is a slug
CodeblockLang(inner) ==
    IF inner # <<>> /\ inner[1].rule = "slug" THEN <<"Some", inner[1].str>> ELSE <<"None">>

\* the inner pairs left once the language tag is taken
CodeblockLines(inner) ==
    IF inner # <<>> /\ inner[1].rule = "slug" THEN Tail(inner) ELSE inner

ActCodeblock(text, state, inner, tr) ==
    Bind(get_whole_block(CodeblockLines(inner), NL), LAMBDA body :
        IF ~body.ok THEN Panicked(state, tr)
        ELSE Dispatch(text, state, tr, "codeblock", <<CodeblockLang(inner), body.text>>))

\* ActInlineCode, were the child given to the text hook like any raw text
ActInlineCodeHooked(text, state, inner, tr) ==
    IF Len(inner) # 1 THEN Panicked(state, tr)
    ELSE Bind(act_on_raw_text(state, next_inner_string(inner), tr), LAMBDA t :
            IF t.panic THEN Panicked(state, t.tr)
            ELSE Dispatch(text, state, t.tr, "inline_code", <<t.text>>))

ActInlineCode(text, state, inner, tr) ==
    IF Len(inner) # 1 THEN Panicked(state, tr)
    ELSE Dispatch(text, state, tr, "inline_code", <<next_inner_string(inner)>>)

\* ImageTags, were the third inner pair never read
ImageTagsNone(state, inner, tr) == [md |-> EmptyMap, tr |-> tr, panic |-> FALSE]

\* if let Some(img_tags) = inner.next() { added_tags = get_metadata(..) }
ImageTags(state, inner, tr) ==
    IF Len(inner) >= 3 THEN get_metadata(state, inner[3].kids, tr)
    ELSE [md |-> EmptyMap, tr |-> tr, panic |-> FALSE]

ActImage(text, state, inner, tr) ==
    IF ~(Len(inner) >= 2) THEN Panicked(state, tr)
    ELSE Bind(ImageTags(state, inner, tr), LAMBDA tags :
            IF tags.panic THEN Panicked(state, tags.tr)
            ELSE Dispatch(text, state, tags.tr, "image",
                          <<next_inner_string(inner), next_inner_string(Tail(inner)),
                            tags.md>>))

\* ActList, were the engine to join the elements itself
ActListJoined(text, state, inner, tr) ==
    Bind(ActEach(state, inner, tr), LAMBDA elements :
        IF elements.panic THEN Panicked(elements.state, elements.tr)
        ELSE Dispatch(text, elements.state, elements.tr, "list",
                      <<(<<Join(elements.texts, NL)>>)>>))

ActList(text, state, inner, tr) ==
    Bind(ActEach(state, inner, tr), LAMBDA elements :
        IF elements.panic THEN Panicked(elements.state, elements.tr)
        ELSE Dispatch(text, elements.state, elements.tr, "list", <<elements.texts>>))

\* file, rich_txt, quote_txt, bold_text, italic_text
ActContainer(text, state, pair_text, inner, tr) ==
    IF Len(inner) = 0 THEN act_on_raw_text(state, pair_text, tr)
    ELSE Bind(ActEach(state, inner, tr), LAMBDA r :
            IF r.panic THEN Panicked(r.state, r.tr)
            ELSE Out(text \o Concat(r.texts), r.state, r.tr))

\* act_on_pair once the soft space is settled: text is the space or
\* nothing, state the ParseState after it
ActMatch(text, state, pair, tr) ==
    IF is_raw_text(pair.rule)
    THEN Bind(act_on_raw_text(state, pair.str, tr),
              LAMBDA r : IF r.panic THEN r ELSE [r EXCEPT !.text = text \o @])
    ELSE CASE pair.rule \in HeaderRules ->
                ActHeader(text, state, pair.kids, tr, LevelOf(pair.rule))
           [] pair.rule = "italic" -> ActInner(text, state, pair.kids, tr, "italic")
           [] pair.rule = "bold" -> ActInner(text, state, pair.kids, tr, "bold")
           [] pair.rule = "link" -> ActLink(text, state, pair.kids, tr, "link")
           [] pair.rule = "reflink" -> ActLink(text, state, pair.kids, tr, "reflink")
           [] pair.rule = "refurl" -> ActRefurl(text, state, pair.kids, tr)
           [] pair.rule = "quote" -> ActQuote(text, state, pair.kids, tr)
           [] pair.rule = "quote_line" -> ActQuoteLine(text, state, pair.kids, tr)
           [] pair.rule = "codeblock" -> ActCodeblock(text, state, pair.kids, tr)
           [] pair.rule = "inline_code" -> ActInlineCode(text, state, pair.kids, tr)
           [] pair.rule = "horiz_sep" ->
                Dispatch(text, state, tr, "horizontal_separator", <<>>)
           [] pair.rule = "image" -> ActImage(text, state, pair.kids, tr)
           [] pair.rule = "list" -> ActList(text, state, pair.kids, tr)
           [] pair.rule = "list_element" ->
                ActInner(text, state, pair.kids, tr, "list_element")
           [] pair.rule = "paragraph_newline" ->
                Out(text, [state EXCEPT !.add_space = TRUE], tr)
           [] pair.rule = "paragraph" -> ActInner(text, state, pair.kids, tr, "paragraph")
           [] pair.rule = "vertical_space" ->
                Dispatch(text, state, tr, "vertical_space", <<>>)
           [] pair.rule \in ContainerRules ->
                ActContainer(text, state, pair.str, pair.kids, tr)
           [] pair.rule = "EOI" -> Out(<<>>, state, tr)
           [] OTHER -> Panicked(state, tr)

act_on_pair(state, pair, tr) ==
    Bind(SoftSpace(state, pair.rule), LAMBDA soft : ActMatch(soft.text, soft.state, pair, tr))

-----------------------------------------------------------------------------
(* The documents: the parse trees the grammar engine hands to the engine.  *)

RECURSIVE RawOf(_)
\* the source span of a pair with these inner pairs
RawOf(kids) == IF kids = <<>> THEN <<>> ELSE Head(kids).str \o RawOf(Tail(kids))

Wrap(rule, kids) == Node(rule, RawOf(kids), kids)

File(blocks) == Wrap("file", blocks \o <<Leaf("EOI", <<>>)>>)

\* the sequences over S of length 0 .. n
SeqsUpTo(S, n) == UNION {[1..k -> S] : k \in 0..n}

Text(s) == Leaf("text", s)

SoftBreak == Leaf("paragraph_newline", NL)

Bold(kids) == Wrap("bold", kids)

Italic(kids) == Wrap("italic", kids)

InlineCode(s) == Wrap("inline_code", <<Leaf("code", s)>>)

Link(label, url) == Wrap("link", label \o <<Leaf("url", url)>>)

Reflink(label, slug) == Wrap("reflink", label \o <<Leaf("slug", slug)>>)

Refurl(slug, url) == Wrap("refurl", <<Leaf("slug", slug), Leaf("url", url)>>)

ImgTag(k, v) == Wrap("img_tag", <<Leaf("img_tag_key", k), Leaf("img_tag_val", v)>>)

Image(alt, url) == Wrap("image", <<Leaf("img_alt", alt), Leaf("url", url)>>)

ImageTagged(alt, url, tags) ==
    Wrap("image", <<Leaf("img_alt", alt), Leaf("url", url), Wrap("img_tags", tags)>>)

Header(level, label) == Wrap(HeaderRule(level), <<label>>)

Codeblock(lang, lines) ==
    Wrap("codeblock", (IF lang = <<>> THEN <<>> ELSE <<Leaf("slug", lang)>>)
                      \o [i \in 1..Len(lines) |-> Leaf("codeblock_line", lines[i])])

UpperKey == <<"u", "p", "p", "e", "r">>

TrueVal == <<"t", "r", "u", "e">>

TaggedImages ==
    {ImageTagged(<<"k">>, <<"u">>, <<ImgTag(UpperKey, TrueVal)>>),
     ImageTagged(<<"k">>, <<"u">>, <<ImgTag(<<"a">>, <<"b">>), ImgTag(UpperKey, TrueVal)>>),
     ImageTagged(<<"k">>, <<"u">>, <<ImgTag(<<"a">>, <<"b">>), ImgTag(<<"a">>, <<"c">>)>>)}

InlineKids ==
    {Text(<<"a">>), SoftBreak, Bold(<<Text(<<"b">>)>>), Italic(<<Text(<<"c">>)>>),
     InlineCode(<<"c">>), Link(<<Leaf("link_text", <<"a">>)>>, <<"u">>),
     Image(<<"k">>, <<"u">>)}

\* "a\nb\nc" (test_transform_string)
SoftWrapDoc ==
    File(<<Wrap("paragraph", <<Text(<<"a">>), SoftBreak, Text(<<"b">>), SoftBreak,
                               Text(<<"c">>)>>)>>)

ParagraphDocs ==
    {File(<<Wrap("paragraph", kids)>>) : kids \in SeqsUpTo(InlineKids, MaxKids)}
    \cup {SoftWrapDoc}
    \cup {File(<<Wrap("paragraph", <<Text(<<"a">>), SoftBreak, i>>)>>) : i \in TaggedImages}
    \cup {File(<<Wrap("paragraph", <<i>>)>>) : i \in TaggedImages}

LabelKids == {Text(<<"a">>), InlineCode(<<"c">>), Bold(<<Text(<<"b">>)>>)}

Labels ==
    {IF kids = <<>> THEN Leaf("rich_txt", <<"a">>) ELSE Wrap("rich_txt", kids) :
        kids \in SeqsUpTo(LabelKids, MaxLabel)}

HeaderDocs == {File(<<Header(l, lab)>>) : l \in HeaderLevels, lab \in Labels}

CodeLines == {<<"a">>, <<" ", "b">>}

ListElements ==
    {Wrap("list_element", <<Text(<<"a">>)>>), Wrap("list_element", <<Bold(<<Text(<<"b">>)>>)>>)}

QuoteLines ==
    {Wrap("quote_line", <<Text(<<"a">>)>>),
     Wrap("quote_line", <<Text(<<"a">>), Bold(<<Text(<<"b">>)>>)>>)}

Blocks ==
    {Codeblock(lang, lines) : lang \in {<<>>, <<"s">>}, lines \in SeqsUpTo(CodeLines, MaxLines)}
    \cup {Wrap("list", els) : els \in SeqsUpTo(ListElements, MaxElems)}
    \cup {Wrap("quote", ls) : ls \in SeqsUpTo(QuoteLines, MaxElems)}
    \cup {Leaf("horiz_sep", <<"-", "-", "-">>), Leaf("vertical_space", NL),
          Refurl(<<"s">>, <<"u">>)}

BlockDocs == {File(<<b>>) : b \in Blocks}

\* a reference-link with slug s, in each place of the tree it can sit
TheReflink == Reflink(<<Leaf("link_text", <<"a">>)>>, <<"s">>)

ReflinkPlaces ==
    {Wrap("paragraph", <<TheReflink>>),
     Wrap("list", <<Wrap("list_element", <<TheReflink>>)>>),
     Wrap("quote", <<Wrap("quote_line", <<TheReflink>>)>>),
     Header(1, Wrap("rich_txt", <<TheReflink>>))}

TheRefurl == Refurl(<<"s">>, <<"u">>)

ReferenceDocs ==
    {File(<<p, TheRefurl>>) : p \in ReflinkPlaces}
    \cup {File(<<TheRefurl, p>>) : p \in ReflinkPlaces}

\* trees that break an invariant of the grammar
MalformedBlocks ==
    {Wrap(HeaderRule(l), <<>>) : l \in HeaderLevels}
    \cup {Wrap(HeaderRule(l), <<Text(<<"a">>), Text(<<"b">>)>>) : l \in HeaderLevels}
    \cup {Wrap("refurl", <<Leaf("slug", <<"s">>)>>),
          Wrap("refurl", <<Leaf("slug", <<"s">>), Leaf("url", <<"u">>), Leaf("url", <<"u">>)>>),
          Wrap("image", <<Leaf("img_alt", <<"k">>)>>),
          Wrap("image", <<>>),
          Wrap("link", <<>>),
          Wrap("reflink", <<>>),
          Wrap("inline_code", <<>>),
          Wrap("quote", <<Text(<<"a">>)>>),
          Leaf("table", <<"a">>)}

MalformedDocs ==
    {File(<<b>>) : b \in MalformedBlocks}
    \cup {File(<<Wrap("paragraph", <<Text(<<"a">>), b>>)>>) : b \in MalformedBlocks}

\* "<!-- c -->" (test_trait_impl): as a comment pair, and as the text it
\* is to a grammar without a comment rule
CommentDocs ==
    {File(<<Wrap("comment", <<Leaf("comment_text", <<"c">>)>>)>>),
     File(<<Wrap("paragraph", <<Text(<<"<", "!", "-", "-", " ", "c", " ", "-", "-", ">">>)>>)>>)}

\* "~~a~~" (test_transform_strike): as a strikethrough pair, and as text
StrikeDocs ==
    {File(<<Wrap("strikethrough", <<Text(<<"a">>)>>)>>),
     File(<<Wrap("paragraph", <<Text(<<"~", "~", "a", "~", "~">>)>>)>>)}

\* a soft line break before a pair that is not inline and resolves its
\* inner pairs itself: "a\n[a][s]c", alone and after the definition of s
SoftReflinkDocs ==
    {File(<<Wrap("paragraph", <<Text(<<"a">>), SoftBreak, TheReflink, Text(<<"c">>)>>)>>),
     File(<<Wrap("paragraph", <<Text(<<"a">>), SoftBreak, TheReflink>>)>>),
     File(<<TheRefurl,
            Wrap("paragraph", <<Text(<<"a">>), SoftBreak, TheReflink, Text(<<"c">>)>>)>>)}

\* the inner pairs of a link's label
LinkLabelKids == {Leaf("link_text", <<"a">>), Bold(<<Text(<<"b">>)>>)}

\* "[](u)", "[a](u)", "[a**b**](u)", .. and the same as reference-links
LinkDocs ==
    {File(<<Wrap("paragraph", <<Link(label, <<"u">>)>>)>>) :
        label \in SeqsUpTo(LinkLabelKids, MaxLabel)}
    \cup {File(<<Wrap("paragraph", <<Reflink(label, <<"s">>)>>)>>) :
            label \in SeqsUpTo(LinkLabelKids, MaxLabel)}

\* the inner pairs of a bold or an italic
EmphKids == {Text(<<"a">>), Italic(<<Text(<<"c">>)>>), Bold(<<Text(<<"b">>)>>)}

\* "**a*c*a**" (test_transform_bold) and the like
EmphDocs ==
    {File(<<Wrap("paragraph", <<Wrap(rule, kids)>>)>>) :
        rule \in {"bold", "italic"}, kids \in SeqsUpTo(EmphKids, MaxKids)}

Docs ==
    ParagraphDocs \cup HeaderDocs \cup BlockDocs \cup ReferenceDocs \cup MalformedDocs
    \cup CommentDocs \cup StrikeDocs \cup SoftReflinkDocs \cup LinkDocs \cup EmphDocs

NoTree == Leaf("EOI", <<>>)

\* what MarkdownParser::parse(Rule::file, input) gives for the input text
Parsed ==
    {[parsed |-> "ok", tree |-> d] : d \in Docs}
    \cup {[parsed |-> "error", tree |-> NoTree], [parsed |-> "empty", tree |-> NoTree]}

\* a call of an entry point: which one, whether the input stream can be read
\* to its end, and what the parser gives for the text
Entry(entry, read, p) ==
    [entry |-> entry, read |-> read, parsed |-> p.parsed, tree |-> p.tree]

\* the calls of transform_markdown_string
Inputs == {Entry("string", "ok", p) : p \in Parsed}

\* the calls of transform_markdown
StreamInputs ==
    {Entry("stream", "ok", p) : p \in Parsed}
    \cup {Entry("stream", "error", [parsed |-> "error", tree |-> NoTree])}

\* the most bytes one write of a short-writing output stream accepts
ShortWrite == 1

\* the output streams: one write accepts all it is given, or ShortWrite bytes
\* of it, or fails
Writer(accepts) == [buf |-> <<>>, accepts |-> accepts]

Writers == {Writer("all"), Writer("short"), Writer("error")}

-----------------------------------------------------------------------------
(* transform_markdown_string and transform_markdown, one action per        *)
(* statement.  The two share their statements up to the transform pass.    *)

NoResult == [tag |-> "none", err |-> "", val |-> <<>>]

\* MarkdownParser::new(), and the buffers and the iterators parse starts
\* with: no node, nothing buffered, no line taken
NoParser ==
    [nodes |-> <<>>, buffer |-> <<>>, buffer_now |-> <<>>, lines |-> <<>>, line |-> <<>>]

Init ==
    /\ input \in Inputs
    /\ \E k \in Renderers : transformer = [kind |-> k, refs |-> EmptyMap, log |-> <<>>]
    /\ pc = "parse"
    /\ res = <<>>
    /\ ret = NoResult
    /\ output = Writer("all")
    /\ parser = NoParser

\* Parse, were a failure of the parser not returned at once
ParseIgnoringFailure ==
    /\ pc = "parse"
    /\ pc' = "peek"
    /\ UNCHANGED <<input, transformer, res, ret, output, parser>>

\* Parse, were the engine to start a render from a renderer without
\* recorded references
ParseResetting ==
    /\ pc = "parse"
    /\ IF input.parsed = "ok"
       THEN pc' = "peek" /\ ret' = ret
       ELSE pc' = "done" /\ ret' = [tag |-> "Err", err |-> "ParsingError", val |-> <<>>]
    /\ transformer' = [transformer EXCEPT !.refs = EmptyMap]
    /\ UNCHANGED <<input, res, output, parser>>

\* let Some(parsed) = MarkdownParser::parse(Rule::file, &input)?.next() else ..
Parse ==
    /\ pc = "parse"
    /\ IF input.parsed = "ok"
       THEN pc' = "peek" /\ ret' = ret
       ELSE pc' = "done" /\ ret' = [tag |-> "Err", err |-> "ParsingError", val |-> <<>>]
    /\ UNCHANGED <<input, transformer, res, output, parser>>

\* parser.act_on_pair(&mut ParseState::peek(), parsed.clone());
PeekPass ==
    /\ pc = "peek"
    /\ Bind(act_on_pair(ParseStatePeek, input.tree, transformer), LAMBDA r :
            /\ transformer' = r.tr
            /\ IF r.panic
               THEN pc' = "done" /\ ret' = [tag |-> "panic", err |-> "", val |-> <<>>]
               ELSE pc' = "finished_peek" /\ ret' = ret)
    /\ UNCHANGED <<input, res, output, parser>>

\* FinishedPeek, were pass 2 started without telling the renderer that
\* pass 1 is over
FinishedPeekSkipped ==
    /\ pc = "finished_peek"
    /\ pc' = "transform"
    /\ UNCHANGED <<input, transformer, res, ret, output, parser>>

\* parser.transformer.finished(true);
FinishedPeek ==
    /\ pc = "finished_peek"
    /\ transformer' = Call(transformer, "finished", <<TRUE>>).tr
    /\ pc' = "transform"
    /\ UNCHANGED <<input, res, ret, output, parser>>

\* let res = parser.act_on_pair(&mut ParseState::default(), parsed);
TransformPass ==
    /\ pc = "transform"
    /\ Bind(act_on_pair(ParseStateDefault, input.tree, transformer), LAMBDA r :
            /\ transformer' = r.tr
            /\ res' = r.text
            /\ IF r.panic
               THEN pc' = "done" /\ ret' = [tag |-> "panic", err |-> "", val |-> <<>>]
               ELSE pc' = "finished_transform" /\ ret' = ret)
    /\ UNCHANGED <<input, output, parser>>

\* parser.transformer.finished(false);
FinishedTransform ==
    /\ pc = "finished_transform"
    /\ input.entry = "string"
    /\ transformer' = Call(transformer, "finished", <<FALSE>>).tr
    /\ pc' = "return"
    /\ UNCHANGED <<input, res, ret, output, parser>>

\* Ok(res)
Return ==
    /\ pc = "return"
    /\ input.entry = "string"
    /\ ret' = [tag |-> "Ok", err |-> "", val |-> res]
    /\ pc' = "done"
    /\ UNCHANGED <<input, transformer, res, output, parser>>

\* input.read_to_string(&mut md_string)?
ReadToString ==
    /\ pc = "read"
    /\ IF input.read = "ok"
       THEN pc' = "parse" /\ ret' = ret
       ELSE pc' = "done" /\ ret' = [tag |-> "Err", err |-> "IoError", val |-> <<>>]
    /\ UNCHANGED <<input, transformer, res, output, parser>>

\* result += parser.transformer.finished(false).as_str();
FinishedAppend ==
    /\ pc = "finished_transform"
    /\ input.entry = "stream"
    /\ Bind(Call(transformer, "finished", <<FALSE>>), LAMBDA c :
            /\ transformer' = c.tr
            /\ res' = res \o c.ret)
    /\ pc' = "write"
    /\ UNCHANGED <<input, ret, output, parser>>

\* the bytes one output.write(buf) takes: Write::write may take fewer than
\* it is given, and says how many
Accepted(writer, buf) ==
    CASE writer.accepts = "all" -> Len(buf)
      [] writer.accepts = "short" -> IF Len(buf) < ShortWrite THEN Len(buf) ELSE ShortWrite
      [] OTHER -> 0

\* Ok(output.write(result.as_bytes())?)
Write ==
    /\ pc = "write"
    /\ IF output.accepts = "error"
       THEN /\ ret' = [tag |-> "Err", err |-> "IoError", val |-> <<>>]
            /\ output' = output
       ELSE /\ ret' = [tag |-> "Ok", err |-> "", val |-> Accepted(output, res)]
            /\ output' = [output EXCEPT !.buf = @ \o SubSeq(res, 1, Accepted(output, res))]
    /\ pc' = "done"
    /\ UNCHANGED <<input, transformer, res, parser>>

\* transform_markdown_string from the parsed tree to its end, as one
\* function: the outcome, the text and the renderer it leaves
RenderTree(tree, tr) ==
    Bind(act_on_pair(ParseStatePeek, tree, tr), LAMBDA p :
        IF p.panic THEN [tag |-> "panic", val |-> <<>>, tr |-> p.tr]
        ELSE Bind(act_on_pair(ParseStateDefault, tree, Call(p.tr, "finished", <<TRUE>>).tr),
                  LAMBDA r :
                    IF r.panic THEN [tag |-> "panic", val |-> <<>>, tr |-> r.tr]
                    ELSE [tag |-> "Ok", val |-> r.text,
                          tr |-> Call(r.tr, "finished", <<FALSE>>).tr]))

Next == Parse \/ PeekPass \/ FinishedPeek \/ TransformPass \/ FinishedTransform \/ Return

Spec == Init /\ [][Next]_vars

\* a call of either entry point, transform_markdown with any output stream
InitEntries ==
    /\ input \in Inputs \cup StreamInputs
    /\ \E k \in Renderers : transformer = [kind |-> k, refs |-> EmptyMap, log |-> <<>>]
    /\ pc = IF input.entry = "stream" THEN "read" ELSE "parse"
    /\ res = <<>>
    /\ ret = NoResult
    /\ output \in IF input.entry = "stream" THEN Writers ELSE {Writer("all")}
    /\ parser = NoParser

NextEntries ==
    \/ ReadToString \/ Parse \/ PeekPass \/ FinishedPeek \/ TransformPass
    \/ FinishedTransform \/ Return \/ FinishedAppend \/ Write

SpecEntries == InitEntries /\ [][NextEntries]_vars

-----------------------------------------------------------------------------
(* Render calls one after the other on the same renderer, as the loop of   *)
(* examples/html.rs makes them.                                            *)

\* the documents of the calls: definitions of s (two urls), a reference to
\* s alone, with a definition after it, before it, and in a header label
CallDocs ==
    {File(<<Refurl(<<"s">>, <<"u">>)>>),
     File(<<Refurl(<<"s">>, <<"v">>)>>),
     File(<<Wrap("paragraph", <<TheReflink>>)>>),
     File(<<Wrap("paragraph", <<TheReflink>>), Refurl(<<"s">>, <<"v">>)>>),
     File(<<Refurl(<<"s">>, <<"v">>), Wrap("paragraph", <<TheReflink>>)>>),
     File(<<Header(1, Wrap("rich_txt", <<TheReflink>>)), Refurl(<<"s">>, <<"v">>)>>),
     File(<<Wrap("paragraph", <<Text(<<"a">>)>>)>>)}

CallInputs == {Entry("string", "ok", [parsed |-> "ok", tree |-> d]) : d \in CallDocs}

\* the render calls that returned on this renderer
Returned(tr) ==
    Cardinality({i \in 1..Len(tr.log) :
                    tr.log[i].hook = "finished" /\ tr.log[i].args = <<FALSE>>})

InitCalls ==
    /\ input \in CallInputs
    /\ \E k \in {"Refs", "Default"} :
            transformer = [kind |-> k, refs |-> EmptyMap, log |-> <<>>]
    /\ pc = "parse"
    /\ res = <<>>
    /\ ret = NoResult
    /\ output = Writer("all")
    /\ parser = NoParser

\* the caller renders the next document with the same renderer
NextCall ==
    /\ pc = "done"
    /\ ret.tag = "Ok"
    /\ Returned(transformer) < MaxCalls
    /\ input' \in CallInputs
    /\ pc' = "parse"
    /\ res' = <<>>
    /\ ret' = NoResult
    /\ UNCHANGED <<transformer, output, parser>>

NextCalls ==
    \/ Parse \/ PeekPass \/ FinishedPeek \/ TransformPass \/ FinishedTransform
    \/ Return \/ NextCall

SpecCalls == InitCalls /\ [][NextCalls]_vars

-----------------------------------------------------------------------------
(* The hand-written parser (src/src/parse.rs).  A MarkdownNode is a record *)
(* [node, level, nodes, text, url]: its variant and the fields the variant *)
(* has, the others empty.  The parser is the record of the variable        *)
(* parser: the nodes pushed so far, the two buffers of parse, the lines    *)
(* md_text.lines() has still to give and the characters of the line being  *)
(* fed that are still to come.                                             *)

MarkdownNode(node, level, nodes, text, url) ==
    [node |-> node, level |-> level, nodes |-> nodes, text |-> text, url |-> url]

RawText(text) == MarkdownNode("RawText", 0, <<>>, text, <<>>)

MarkdownNodeHeader(level, nodes) == MarkdownNode("Header", level, nodes, <<>>, <<>>)

Strikethrough == MarkdownNode("Strikethrough", 0, <<>>, <<>>, <<>>)

MarkdownNodeLink(nodes, url) == MarkdownNode("Link", 0, nodes, <<>>, url)

\* vec![Box::new(node)]
wrap_mdnode(node) == <<node>>

\* char::is_whitespace, for the characters of the model
is_whitespace(c) == c \in {" ", "\n", "\t"}

RECURSIVE trim_start(_)
trim_start(s) == IF s # <<>> /\ is_whitespace(Head(s)) THEN trim_start(Tail(s)) ELSE s

RECURSIVE trim_end(_)
trim_end(s) ==
    IF s # <<>> /\ is_whitespace(s[Len(s)]) THEN trim_end(SubSeq(s, 1, Len(s) - 1)) ELSE s

starts_with(s, pat) == Len(s) >= Len(pat) /\ SubSeq(s, 1, Len(pat)) = pat

ends_with(s, pat) == Len(s) >= Len(pat) /\ SubSeq(s, Len(s) - Len(pat) + 1, Len(s)) = pat

\* the byte offsets (from 0) at which the pattern occurs in the string
Matches(s, pat) == {i \in 0..(Len(s) - Len(pat)) : SubSeq(s, i + 1, i + Len(pat)) = pat}

contains(s, pat) == Matches(s, pat) # {}

\* str::find: the offset of the first occurrence, if there is one
find(s, pat) ==
    IF Matches(s, pat) = {} THEN [some |-> FALSE, val |-> 0]
    ELSE [some |-> TRUE, val |-> CHOOSE i \in Matches(s, pat) : \A j \in Matches(s, pat) : i <= j]

\* &s[from..to], offsets from 0
Slice(s, from, to) == SubSeq(s, from + 1, to)

RECURSIVE str_lines(_)
\* str::lines: the text cut at every "\n", the newline left out, and no
\* empty last line after a final newline
str_lines(s) ==
    IF s = <<>> THEN <<>>
    ELSE Bind(find(s, NL), LAMBDA nl :
            IF ~nl.some THEN <<s>>
            ELSE <<Slice(s, 0, nl.val)>> \o str_lines(Slice(s, nl.val + 1, Len(s))))

DetectNone == [tag |-> "None", nodes |-> <<>>]

DetectSome(nodes) == [tag |-> "Some", nodes |-> nodes]

\* the offsets of the character in buffer[..text_end]
OffsetsOf(ch, buffer, text_end) == {i \in 0..(text_end - 1) : buffer[i + 1] = ch}

\* last_open after the loop over buffer[..text_end]: the offset of the last
\* '[', 0 when there is none
LastOpen(buffer, text_end) ==
    IF OffsetsOf("[", buffer, text_end) = {} THEN 0
    ELSE CHOOSE i \in OffsetsOf("[", buffer, text_end) :
            \A j \in OffsetsOf("[", buffer, text_end) : j <= i

\* if buffer.ends_with(")") { if buffer_now.contains("](") { .. } }: the
\* unwrap of buffer.find("](") panics when the buffer itself has no "]("
DetectLink(buffer, buffer_now) ==
    IF ~(ends_with(buffer, <<")">>) /\ contains(buffer_now, <<"]", "(">>)) THEN DetectNone
    ELSE IF ~find(buffer, <<"]", "(">>).some THEN [tag |-> "panic", nodes |-> <<>>]
    ELSE Bind(find(buffer, <<"]", "(">>).val, LAMBDA text_end :
            IF Cardinality(OffsetsOf("]", buffer, text_end))
                    < Cardinality(OffsetsOf("[", buffer, text_end))
            THEN Bind(LastOpen(buffer, text_end), LAMBDA last_open :
                    DetectSome(<<RawText(Slice(buffer, 0, last_open)),
                                 MarkdownNodeLink(
                                    wrap_mdnode(RawText(Slice(buffer, last_open + 1, text_end))),
                                    Slice(buffer, text_end + 2, Len(buffer) - 1))>>))
            ELSE DetectNone)

\* if buffer.starts_with("#") && buffer.ends_with('\n') { if let Some(start) = .. }
DetectsHeader(buffer) ==
    starts_with(buffer, <<"#">>) /\ ends_with(buffer, NL) /\ find(buffer, <<"#", " ">>).some

DetectHeader(buffer) ==
    Bind(find(buffer, <<"#", " ">>).val + 1, LAMBDA level :
        DetectSome(<<MarkdownNodeHeader(level,
                        wrap_mdnode(RawText(trim_end(Slice(buffer, level + 1, Len(buffer))))))>>))

detect_node(buffer, buffer_now) ==
    IF DetectsHeader(buffer) THEN DetectHeader(buffer)
    ELSE IF trim_start(buffer) = <<"-", "-", "-", "\n">> THEN DetectSome(<<Strikethrough>>)
    ELSE DetectLink(buffer, buffer_now)

\* a link in raw text, in its parts: the text before the opening bracket,
\* the link text, what separates "]" from "(", the url, what separates the
\* url from ")", and the text after
LinkCase(before, text, gap, url, tail, after) ==
    [before |-> before, text |-> text, gap |-> gap, url |-> url, tail |-> tail,
     after |-> after]

Compose(c) ==
    c.before \o <<"[">> \o c.text \o <<"]">> \o c.gap \o <<"(">> \o c.url \o c.tail
        \o <<")">> \o c.after

TestBefore ==
    <<"a", "b", "l", "a", "b", "l", "a", "b", "l", "a", "\n", "a", "l",
      "l", "a", "e", "z", "f", "l", "k">>

TestUrl ==
    <<"u", "r", "l", "_", "o", "f", "_", "t", "h", "e", "_", "l", "i", "n",
      "k">>

TestAfter ==
    <<"z", "l", "k", "j", "a", "z", "l", "k", "e", "j", "f", "e", "\n">>

\* the two inputs of test_link
TestLinkCases ==
    {LinkCase(TestBefore, <<"t", "e", "x", "t", " ", "t", "o", " ", "l", "i", "n", "k">>, <<>>, TestUrl, <<>>, TestAfter),
     LinkCase(TestBefore, <<"t", "e", "x", "t", " ", "\n", "t", "o", " ", "l", "i", "n", "k">>,
              NL, TestUrl, NL, TestAfter)}

LinkCases ==
    TestLinkCases
    \cup {LinkCase(before, text, gap, <<"u">>, tail, after) :
            before \in {<<>>, <<"a">>, <<"a", "\n", "b">>},
            text \in {<<"t">>, <<"t", " ", "\n", "x">>},
            gap \in {<<>>, NL},
            tail \in {<<>>, NL},
            after \in {NL, <<"z", "\n">>}}

\* the inputs of test_header and test_strikethrough, the header shortened
OtherTexts ==
    {[i \in 1..level |-> "#"] \o <<" ", "h", "\n">> : level \in HeaderLevels}
    \cup {<<" ", " ", "\t", " ", "-", "-", "-", "\n">>, <<"a", "\n">>, <<>>}

ParseTexts == {Compose(c) : c \in LinkCases} \cup OtherTexts

\* MarkdownParser::parse(md_text) at its first line: no node, both buffers
\* empty, the iterator md_text.lines() at its start
InitParse ==
    /\ \E md_text \in ParseTexts : input = [md_text |-> md_text]
    /\ parser = [NoParser EXCEPT !.lines = str_lines(input.md_text)]
    /\ pc = "lines"
    /\ ret = NoResult
    /\ res = <<>>
    /\ transformer = [kind |-> "Default", refs |-> EmptyMap, log |-> <<>>]
    /\ output = Writer("all")

\* for line in md_text.lines() { parser.feed_line(line.to_string() + "\n", ..) }
\* and let line = line.trim_start();
FeedLine ==
    /\ pc = "lines"
    /\ parser.lines # <<>>
    /\ Bind(trim_start(Head(parser.lines) \o NL), LAMBDA line :
            /\ parser' = [parser EXCEPT !.lines = Tail(@), !.line = line]
            /\ pc' = IF line = <<>> THEN "lines" ELSE "chars")
    /\ UNCHANGED <<input, transformer, res, ret, output>>

\* one turn of for c in line.chars() { .. }
FeedChar ==
    /\ pc = "chars"
    /\ Bind(Head(parser.line), LAMBDA c :
        Bind(parser.buffer \o <<c>>, LAMBDA buffer :
        Bind(IF is_whitespace(c) THEN parser.buffer_now ELSE parser.buffer_now \o <<c>>,
             LAMBDA buffer_now :
        Bind(detect_node(buffer, buffer_now), LAMBDA d :
            /\ parser' =
                 [parser EXCEPT
                    !.line = Tail(@),
                    !.nodes = @ \o d.nodes,
                    !.buffer = IF d.tag = "Some" THEN <<>> ELSE buffer,
                    !.buffer_now = IF d.tag = "Some" THEN <<>> ELSE buffer_now]
            /\ IF d.tag = "panic"
               THEN pc' = "done" /\ ret' = [tag |-> "panic", err |-> "", val |-> <<>>]
               ELSE /\ pc' = IF Tail(parser.line) = <<>> THEN "lines" ELSE "chars"
                    /\ ret' = ret))))
    /\ UNCHANGED <<input, transformer, res, output>>

\* if !buffer.is_empty() { parser.nodes.push(RawText(buffer)) }  parser.nodes
ParseReturn ==
    /\ pc = "lines"
    /\ parser.lines = <<>>
    /\ Bind(parser.nodes \o (IF parser.buffer # <<>> THEN <<RawText(parser.buffer)>> ELSE <<>>),
            LAMBDA nodes :
                /\ parser' = [parser EXCEPT !.nodes = nodes]
                /\ ret' = [tag |-> "Ok", err |-> "", val |-> nodes])
    /\ pc' = "done"
    /\ UNCHANGED <<input, transformer, res, output>>

NextParse == FeedLine \/ FeedChar \/ ParseReturn

SpecParse == InitParse /\ [][NextParse]_vars

-----------------------------------------------------------------------------
(* What the claims speak of.                                               *)

Log == transformer.log

TransformHooks ==
    {"transform_text", "transform_header", "transform_bold", "transform_italic",
     "transform_reflink", "transform_refurl", "transform_link", "transform_image",
     "transform_comment", "transform_strikethrough", "transform_quote",
     "transform_codeblock", "transform_inline_code", "transform_horizontal_separator",
     "transform_list", "transform_list_element", "transform_vertical_space",
     "transform_paragraph"}

\* the log entry i is the call finished(true)
IsFinishedPeek(i) == Log[i].hook = "finished" /\ Log[i].args = <<TRUE>>

\* the log entry i was made in pass 1 / in pass 2
InPass1(i) == \A j \in 1..i : ~IsFinishedPeek(j)

InPass2(i) == \E j \in 1..(i - 1) : IsFinishedPeek(j)

\* the calls of a hook, in order
CallsOf(hook) == SelectSeq(Log, LAMBDA e : e.hook = hook)

DoneOk == pc = "done" /\ ret.tag = "Ok"

\* the document is one block of one of these rules (and the end marker)
OneBlock(rules) ==
    /\ input.parsed = "ok"
    /\ Len(input.tree.kids) = 2
    /\ input.tree.kids[1].rule \in rules

TheBlock == input.tree.kids[1]

FreshRenderer(kind) == [kind |-> kind, refs |-> EmptyMap, log |-> <<>>]

-----------------------------------------------------------------------------
\* C1: no transform-phase hook is invoked before the peek pass over the
\* whole tree has completed, that is before finished(true), whatever the
\* shape of the tree.
C1_NoTransformHookBeforeFinishedPeek ==
    \A i \in 1..Len(Log) : Log[i].hook \in TransformHooks => InPass2(i)

-----------------------------------------------------------------------------
\* the document with its two blocks in the other order
Mirror(tree) == File(<<tree.kids[2], tree.kids[1]>>)

\* C2: reference resolution is order-independent: with the renderer that
\* records slug -> url in peek_refurl and looks it up in transform_reflink,
\* every peek_refurl call comes before any transform_reflink call, and the
\* document renders as the document with the definition on the other side
\* of the reference-link does, wherever the reference-link sits.
C2_ReferenceOrderIndependent ==
    (input.parsed = "ok" /\ input.tree \in ReferenceDocs /\ transformer.kind = "Refs")
    => /\ \A i, j \in 1..Len(Log) :
            (Log[i].hook = "transform_reflink" /\ Log[j].hook = "peek_refurl") => j < i
       /\ pc = "done" =>
            Bind(RenderTree(Mirror(input.tree), FreshRenderer("Refs")), LAMBDA m :
                ret.tag = m.tag /\ ret.val = m.val)

-----------------------------------------------------------------------------
BlockRules == HeaderRules \cup {"codeblock", "horiz_sep", "list"}

BlockHook(rule) ==
    CASE rule \in HeaderRules -> "transform_header"
      [] rule = "codeblock" -> "transform_codeblock"
      [] rule = "horiz_sep" -> "transform_horizontal_separator"
      [] rule = "list" -> "transform_list"

\* in a document of one block, the block's transform hook is the last
\* call before finished(false)
TheBlockCall == Log[Len(Log) - 1]

\* C3 (as the spec has it): the text a block construct (header, code
\* block, horizontal separator, list) contributes to the output is one
\* newline, the text its transform hook returned, one newline.
C3_BlockWrappedInNewlines ==
    (DoneOk /\ OneBlock(BlockRules))
    => /\ TheBlockCall.hook = BlockHook(TheBlock.rule)
       /\ ret.val = NL \o TheBlockCall.ret \o NL

\* C3 (amended): the text a block construct contributes to the output is
\* exactly the text its transform hook returned; the engine adds no
\* newline before or after it.
C3_BlockIsHookText ==
    (DoneOk /\ OneBlock(BlockRules))
    => /\ TheBlockCall.hook = BlockHook(TheBlock.rule)
       /\ ret.val = TheBlockCall.ret

C3_Witness ==
    /\ DoneOk
    /\ OneBlock({"h3"})
    /\ transformer.kind = "Tagging"
    /\ ret.val = <<"h", "3", ":", " ", "a">>

-----------------------------------------------------------------------------
\* the kinds C4 names as inline units
InlineUnits == {"text", "link_text", "code", "image", "bold", "italic", "link"}

\* a soft break before child i is still pending at child i
SoftPending(kids, i) ==
    \E j \in 1..(i - 1) :
        /\ kids[j].rule = "paragraph_newline"
        /\ \A m \in (j + 1)..(i - 1) : kids[m].rule \notin InlineUnits

\* what the child renders to on its own, in the transform pass
Alone(kind, kid) == act_on_pair(ParseStateDefault, kid, FreshRenderer(kind)).text

\* what a child that is no inline unit renders to, in the transform pass,
\* when it is handed the ParseState with the soft break pending or not
Handed(kind, kid, pending) ==
    act_on_pair([ParseStateDefault EXCEPT !.add_space = pending], kid,
                FreshRenderer(kind)).text

ExpectedPiece(kind, kids, i) ==
    IF kids[i].rule = "paragraph_newline" THEN <<>>
    ELSE IF kids[i].rule \in InlineUnits
    THEN (IF SoftPending(kids, i) THEN SP ELSE <<>>) \o Alone(kind, kids[i])
    ELSE Handed(kind, kids[i], SoftPending(kids, i))

ExpectedParagraph(kind, kids) ==
    Concat([i \in 1..Len(kids) |-> ExpectedPiece(kind, kids, i)])

\* C4: in the transform pass a soft line break among a paragraph's
\* children gives no output of its own, and the next inline unit after it
\* is given one space before its own output: the paragraph's text is its
\* children's own outputs, each inline unit with a pending soft break
\* prefixed by one space; "a\nb\nc" with the identity text hook gives
\* "a b c".
C4_SoftBreakIsOneSpace ==
    (DoneOk /\ OneBlock({"paragraph"}))
    => /\ Len(CallsOf("transform_paragraph")) = 1
       /\ CallsOf("transform_paragraph")[1].args[1]
            = ExpectedParagraph(transformer.kind, TheBlock.kids)
       /\ (input.tree = SoftWrapDoc /\ transformer.kind = "Default")
            => ret.val = <<"a", " ", "b", " ", "c">>

C4_Witness ==
    /\ DoneOk
    /\ input.tree = SoftWrapDoc
    /\ transformer.kind = "Default"
    /\ ret.val = <<"a", " ", "b", " ", "c">>

-----------------------------------------------------------------------------
RECURSIVE Resolved(_, _)
\* the text of a header label: text through the text hook, inline code and
\* bold through their hooks, a label's children concatenated
Resolved(kind, node) ==
    CASE node.rule = "text" ->
            HookImpl(kind, "transform_text", <<node.str>>, EmptyMap).ret
      [] node.rule = "inline_code" ->
            HookImpl(kind, "transform_inline_code", <<node.kids[1].str>>, EmptyMap).ret
      [] node.rule = "bold" ->
            HookImpl(kind, "transform_bold",
                     <<Concat([i \in 1..Len(node.kids) |-> Resolved(kind, node.kids[i])])>>,
                     EmptyMap).ret
      [] node.rule = "rich_txt" ->
            IF node.kids = <<>>
            THEN HookImpl(kind, "transform_text", <<node.str>>, EmptyMap).ret
            ELSE Concat([i \in 1..Len(node.kids) |-> Resolved(kind, node.kids[i])])

\* the positions in the log of the calls of a hook
PositionsOf(hook) == {i \in 1..Len(Log) : Log[i].hook = hook}

\* C5: a document of one level-L header gives exactly one peek_header call,
\* in pass 1, and exactly one transform_header call, in pass 2, both with
\* level L and with the same label, the resolved text of the header's
\* child.
C5_OneHeaderCallPerPass ==
    (DoneOk /\ OneBlock(HeaderRules))
    => /\ Cardinality(PositionsOf("peek_header")) = 1
       /\ Cardinality(PositionsOf("transform_header")) = 1
       /\ \A i \in PositionsOf("peek_header") : InPass1(i)
       /\ \A i \in PositionsOf("transform_header") : InPass2(i)
       /\ \A i \in PositionsOf("peek_header") \cup PositionsOf("transform_header") :
            /\ TheBlock.rule = HeaderRule(Log[i].args[1])
            /\ Log[i].args[2] = Resolved(transformer.kind, TheBlock.kids[1])

C5_Witness ==
    /\ DoneOk
    /\ OneBlock({"h6"})
    /\ transformer.kind = "Tagging"
    /\ TheBlock.kids[1].kids = <<InlineCode(<<"c">>), Bold(<<Text(<<"b">>)>>)>>
    /\ CallsOf("peek_header")[1].args
         = <<6, <<"C", "O", "D", "E", " ", "c", " ", "C", "O", "D", "E",
                  "B", "O", "L", "D", " ", "b", " ", "B", "O", "L", "D">>>>
    /\ CallsOf("transform_header")[1].args = CallsOf("peek_header")[1].args

-----------------------------------------------------------------------------
RECURSIVE LinesJoined(_)
\* the raw text of the lines, one newline between consecutive lines
LinesJoined(lines) ==
    IF lines = <<>> THEN <<>>
    ELSE IF Len(lines) = 1 THEN lines[1].str
    ELSE lines[1].str \o NL \o LinesJoined(Tail(lines))

HasLangTag(block) == block.kids # <<>> /\ block.kids[1].rule = "slug"

\* C6: the code-block hook is given Some(tag) exactly when the node's
\* first child is a language tag, which is then no part of the body, and
\* the body is the raw text of the other children joined by one newline,
\* nothing added before or after and nothing removed; each pass calls the
\* hook once.
C6_CodeblockLangAndBody ==
    OneBlock({"codeblock"})
    => /\ \A i \in PositionsOf("peek_codeblock") \cup PositionsOf("transform_codeblock") :
            /\ (Log[i].args[1][1] = "Some") <=> HasLangTag(TheBlock)
            /\ HasLangTag(TheBlock) =>
                 /\ Log[i].args[1] = <<"Some", TheBlock.kids[1].str>>
                 /\ Log[i].args[2] = LinesJoined(Tail(TheBlock.kids))
            /\ ~HasLangTag(TheBlock) =>
                 /\ Log[i].args[1] = <<"None">>
                 /\ Log[i].args[2] = LinesJoined(TheBlock.kids)
       /\ DoneOk =>
            /\ Cardinality(PositionsOf("peek_codeblock")) = 1
            /\ Cardinality(PositionsOf("transform_codeblock")) = 1

C6_Witness ==
    /\ DoneOk
    /\ TheBlock = Codeblock(<<"s">>, << <<" ", "b">>, <<"a">> >>)
    /\ CallsOf("peek_codeblock")[1].args = <<(<<"Some", <<"s">>>>), <<" ", "b", "\n", "a">>>>
    /\ CallsOf("transform_codeblock")[1].args = CallsOf("peek_codeblock")[1].args

-----------------------------------------------------------------------------
\* the image children of the paragraph
ImagesOf(kids) == SelectSeq(kids, LAMBDA k : k.rule = "image")

\* the key/value pairs of an image's third child
TagPairs(image) == image.kids[3].kids

\* the pair p is the last one of its key
LastOfKey(pairs, p) ==
    \A q \in (p + 1)..Len(pairs) : pairs[q].kids[1].str # pairs[p].kids[1].str

\* the renderer keeps the default text hook
KeepsTextHook(kind) ==
    \A s \in {UpperKey, TrueVal, <<"a">>, <<"b">>, <<"c">>} :
        HookImpl(kind, "transform_text", <<s>>, EmptyMap).ret = s

\* C7: for an image with two children (alt, url), peek_image and
\* transform_image are given the alt text, the url and an empty map; with
\* a third child of key/value pairs, transform_image is given a map with an
\* entry for each pair (for a renderer that keeps the default text hook:
\* the pair's key and value), so that the renderer testing upper = true
\* sees it.
C7_ImageMetadata ==
    (DoneOk /\ OneBlock({"paragraph"}) /\ ImagesOf(TheBlock.kids) # <<>>)
    => Bind(ImagesOf(TheBlock.kids), LAMBDA images :
        /\ Len(CallsOf("peek_image")) = Len(images)
        /\ Len(CallsOf("transform_image")) = Len(images)
        /\ \A n \in 1..Len(images) :
            /\ CallsOf("transform_image")[n].args[1] = images[n].kids[1].str
            /\ CallsOf("transform_image")[n].args[2] = images[n].kids[2].str
            /\ Len(images[n].kids) = 2 =>
                 /\ CallsOf("peek_image")[n].args
                      = <<images[n].kids[1].str, images[n].kids[2].str, EmptyMap>>
                 /\ CallsOf("transform_image")[n].args
                      = <<images[n].kids[1].str, images[n].kids[2].str, EmptyMap>>
            /\ (Len(images[n].kids) = 3 /\ KeepsTextHook(transformer.kind)) =>
                 /\ DOMAIN CallsOf("transform_image")[n].args[3]
                      = {TagPairs(images[n])[p].kids[1].str :
                            p \in 1..Len(TagPairs(images[n]))}
                 /\ \A p \in 1..Len(TagPairs(images[n])) :
                        LastOfKey(TagPairs(images[n]), p) =>
                            CallsOf("transform_image")[n].args[3]
                                [TagPairs(images[n])[p].kids[1].str]
                              = TagPairs(images[n])[p].kids[2].str
                 /\ (transformer.kind = "Tagging"
                        /\ \E p \in 1..Len(TagPairs(images[n])) :
                              /\ TagPairs(images[n])[p].kids[1].str = UpperKey
                              /\ TagPairs(images[n])[p].kids[2].str = TrueVal)
                    => CallsOf("transform_image")[n].ret
                         = ToUppercase(images[n].kids[1].str) \o <<" ", "-", ">", " ">>
                           \o ToUppercase(images[n].kids[2].str))

C7_Witness ==
    /\ DoneOk
    /\ transformer.kind = "Tagging"
    /\ TheBlock.kids
         = <<Text(<<"a">>), SoftBreak,
             ImageTagged(<<"k">>, <<"u">>, <<ImgTag(<<"a">>, <<"b">>), ImgTag(UpperKey, TrueVal)>>)>>
    /\ DOMAIN CallsOf("transform_image")[1].args[3] = {<<"a">>, UpperKey}
    /\ ret.val = <<"a", " ", "K", " ", "-", ">", " ", "U">>

-----------------------------------------------------------------------------
\* C8: for a list of n list elements transform_list is called once, with a
\* sequence of length n whose i-th entry is the text transform_list_element
\* returned for the i-th child, in order, and the list's output is exactly
\* the text transform_list returns.
C8_ListHandsElementsToHook ==
    (DoneOk /\ OneBlock({"list"}))
    => /\ Len(CallsOf("transform_list")) = 1
       /\ Len(CallsOf("transform_list_element")) = Len(TheBlock.kids)
       /\ Len(CallsOf("transform_list")[1].args[1]) = Len(TheBlock.kids)
       /\ \A i \in 1..Len(TheBlock.kids) :
            CallsOf("transform_list")[1].args[1][i]
              = CallsOf("transform_list_element")[i].ret
       /\ ret.val = CallsOf("transform_list")[1].ret

C8_Witness ==
    /\ DoneOk
    /\ OneBlock({"list"})
    /\ transformer.kind = "Tagging"
    /\ Len(TheBlock.kids) = 3
    /\ ret.val = <<"\n", "a", ",", " ", "B", "O", "L", "D", " ", "b", " ",
                   "B", "O", "L", "D", ",", " ", "a", "\n">>

-----------------------------------------------------------------------------
\* the document holds a construct whose hook the renderer does not
\* override: a well-formed image, reference-definition or horizontal
\* separator, rendered by the renderer that overrides nothing
HasUnimplementedConstruct ==
    /\ transformer.kind = "Default"
    /\ input.tree \notin MalformedDocs
    /\ \/ OneBlock({"refurl", "horiz_sep"})
       \/ OneBlock({"paragraph"}) /\ TheBlock.kids = <<Image(<<"k">>, <<"u">>)>>

\* C9 (as the spec has it): a construct whose hook the renderer did not
\* implement makes the render call end in a failure; it never returns
\* success with the construct's data dropped from the output.
C9_UnimplementedHookFails ==
    (pc = "done" /\ HasUnimplementedConstruct) => ret.tag = "Err"

\* C9 (amended): a construct whose hook the renderer did not override is
\* rendered by the trait's default hook and the render call succeeds: the
\* image renders to its alt text, the reference-definition and the
\* horizontal separator to the empty text.
C9_DefaultHookSucceeds ==
    (pc = "done" /\ HasUnimplementedConstruct)
    => /\ ret.tag = "Ok"
       /\ ret.val = IF TheBlock.rule = "paragraph" THEN <<"k">> ELSE <<>>

C9_Witness ==
    /\ pc = "done"
    /\ HasUnimplementedConstruct
    /\ TheBlock.rule = "paragraph"
    /\ ret = [tag |-> "Ok", err |-> "", val |-> <<"k">>]

-----------------------------------------------------------------------------
IsMalformed == input.parsed = "ok" /\ input.tree \in MalformedDocs

\* C10 (as the spec has it): every failure is returned as Err from the
\* entry point; a tree that breaks a structural invariant makes it return
\* a failure value, it does not abort.
C10_InvariantViolationIsErr ==
    (pc = "done" /\ IsMalformed) => ret.tag = "Err"

\* C10 (amended): a parse failure (or an empty tree) is returned as
\* Err(ParsingError) and nothing else is; a tree that breaks a structural
\* invariant makes the entry point panic in the peek pass, before
\* finished(true), and return nothing.
C10_ParseFailureIsErrViolationPanics ==
    pc = "done"
    => /\ (ret.tag = "Err") <=> (input.parsed # "ok")
       /\ ret.tag = "Err" => ret.err = "ParsingError"
       /\ IsMalformed => (ret.tag = "panic" /\ PositionsOf("finished") = {})

C10_Witness ==
    /\ pc = "done"
    /\ input.tree = File(<<Wrap("link", <<>>)>>)
    /\ ret.tag = "panic"
    /\ PositionsOf("finished") = {}

-----------------------------------------------------------------------------
\* the parser gave no tree for the text read: a parse error, or no pair
ParseFailed == input.read = "ok" /\ input.parsed # "ok"

\* C11: when the parser fails on the input or gives an empty tree, both
\* entry points return Err(ParsingError), and on that path no hook of the
\* renderer is invoked, its state is as it was, and nothing is written to
\* the output stream.
C11_ParseFailureTouchesNothing ==
    ParseFailed
    => /\ Log = <<>>
       /\ transformer = FreshRenderer(transformer.kind)
       /\ output.buf = <<>>
       /\ pc = "done" => (ret.tag = "Err" /\ ret.err = "ParsingError")

C11_Witness ==
    /\ pc = "done"
    /\ input.entry = "stream"
    /\ input.parsed = "empty"
    /\ output = Writer("all")
    /\ ret = [tag |-> "Err", err |-> "ParsingError", val |-> <<>>]
    /\ Log = <<>>

-----------------------------------------------------------------------------
\* C12: for the same input and the same renderer, transform_markdown writes
\* to the output stream exactly the text transform_markdown_string returns,
\* all of it, and returns its length, whatever the renderer's finished hook
\* returns and however many bytes the stream accepts in one write.
C12_StreamWritesWhatStringReturns ==
    (pc = "done" /\ input.entry = "stream" /\ ret.tag = "Ok")
    => Bind(RenderTree(input.tree, FreshRenderer(transformer.kind)), LAMBDA m :
            /\ m.tag = "Ok"
            /\ output.buf = m.val
            /\ ret.val = Len(m.val))

-----------------------------------------------------------------------------
RECURSIVE RefsRecorded(_)
\* the table the peek_refurl calls of a log leave, from the empty table
RefsRecorded(log) ==
    IF log = <<>> THEN EmptyMap
    ELSE Bind(log[Len(log)], LAMBDA e :
            IF e.hook = "peek_refurl"
            THEN MapInsert(RefsRecorded(SubSeq(log, 1, Len(log) - 1)), e.args[1], e.args[2])
            ELSE RefsRecorded(SubSeq(log, 1, Len(log) - 1)))

\* the log entry i was made in the transform pass of its render call
InTransformPass(i) ==
    \E j \in 1..(i - 1) :
        /\ IsFinishedPeek(j)
        /\ \A m \in (j + 1)..(i - 1) : Log[m].hook # "finished"

\* C13: across render calls on one renderer the engine changes the
\* renderer's state only through hooks and never resets it: the table is
\* what all the peek_refurl calls so far, of every document, left; a
\* transform_reflink call of the transform pass sees the latest definition
\* of its slug, the one of its own document if it has one, else the one an
\* earlier document recorded.
C13_RendererStateOutlivesCall ==
    /\ transformer.kind = "Refs" => transformer.refs = RefsRecorded(Log)
    /\ transformer.kind = "Default" => transformer.refs = EmptyMap
    /\ \A i \in 1..Len(Log) :
        (transformer.kind = "Refs" /\ Log[i].hook = "transform_reflink" /\ InTransformPass(i))
        => Log[i].ret
             = RefsHook("transform_reflink", Log[i].args,
                        RefsRecorded(SubSeq(Log, 1, i - 1))).ret

C13_Witness ==
    /\ DoneOk
    /\ transformer.kind = "Refs"
    /\ Returned(transformer) = 2
    /\ input.tree = File(<<Wrap("paragraph", <<TheReflink>>)>>)
    /\ \A i \in 1..Len(Log) :
            Log[i].hook = "peek_refurl" => (Log[i].args = <<(<<"s">>), <<"u">>>> /\ i = 1)
    /\ ret.val = <<"<", "a", " ", "h", "r", "e", "f", "=", "\"", "u", "\"", ">", "a",
                   "<", "/", "a", ">">>

-----------------------------------------------------------------------------
RECURSIVE QuoteJoined(_, _)
\* the lines' own renderings, one newline between consecutive lines
QuoteJoined(kind, lines) ==
    IF lines = <<>> THEN <<>>
    ELSE IF Len(lines) = 1 THEN Alone(kind, lines[1])
    ELSE Alone(kind, lines[1]) \o NL \o QuoteJoined(kind, Tail(lines))

\* C14: for a quote of n quote lines transform_quote is invoked once, after
\* the lines have been resolved (it is the last hook of the pass), with the
\* n resolved line texts in order, one newline between consecutive lines
\* and none before or after; what is inline in a line has been rendered by
\* its own hook.
C14_QuoteLinesJoined ==
    (DoneOk /\ OneBlock({"quote"}))
    => /\ Len(CallsOf("transform_quote")) = 1
       /\ TheBlockCall.hook = "transform_quote"
       /\ TheBlockCall.args = <<QuoteJoined(transformer.kind, TheBlock.kids)>>
       /\ ret.val = TheBlockCall.ret

C14_Witness ==
    /\ DoneOk
    /\ transformer.kind = "Tagging"
    /\ TheBlock = Wrap("quote", <<Wrap("quote_line", <<Text(<<"a">>)>>),
                                  Wrap("quote_line", <<Text(<<"a">>), Bold(<<Text(<<"b">>)>>)>>)>>)
    /\ CallsOf("transform_quote")[1].args
         = << <<"a", "\n", "a", "B", "O", "L", "D", " ", "b", " ", "B", "O", "L", "D">> >>

-----------------------------------------------------------------------------
\* the paragraph's one child, a link or a reference-link
TheLink == TheBlock.kids[1]

OneLink ==
    /\ OneBlock({"paragraph"})
    /\ Len(TheBlock.kids) = 1
    /\ TheLink.rule \in {"link", "reflink"}
    /\ Len(TheLink.kids) >= 1

\* the children of the link but the last, each on its own, concatenated
LabelOf(kind, link) ==
    Concat([i \in 1..(Len(link.kids) - 1) |-> Alone(kind, link.kids[i])])

\* C15: transform_link is given as label the renderings of the first N - 1
\* children of the link in order, concatenated (the empty text when N = 1),
\* and as destination the raw text of the last child, which the text hook
\* is not given; a reference-link likewise, the last child being the slug.
C15_LinkLabelAndDestination ==
    (DoneOk /\ OneLink)
    => /\ Len(CallsOf("transform_" \o TheLink.rule)) = 1
       /\ CallsOf("transform_" \o TheLink.rule)[1].args
            = <<LabelOf(transformer.kind, TheLink), TheLink.kids[Len(TheLink.kids)].str>>
       /\ \A i \in PositionsOf("peek_text") \cup PositionsOf("transform_text") :
            Log[i].args # <<TheLink.kids[Len(TheLink.kids)].str>>

C15_Witness ==
    /\ DoneOk
    /\ transformer.kind = "Upper"
    /\ OneLink
    /\ TheLink = Link(<<Leaf("link_text", <<"a">>), Bold(<<Text(<<"b">>)>>)>>, <<"u">>)
    /\ CallsOf("transform_link")[1].args = << <<"A", "B">>, <<"u">> >>

-----------------------------------------------------------------------------
\* the paragraph's one child, a bold or an italic
TheEmph == TheBlock.kids[1]

OneEmph ==
    /\ OneBlock({"paragraph"})
    /\ Len(TheBlock.kids) = 1
    /\ TheEmph.rule \in {"bold", "italic"}

\* the call of the hook of the paragraph's one child: the last before
\* transform_paragraph and finished(false)
TheEmphCall == Log[Len(Log) - 2]

\* C16: in the transform pass transform_bold (transform_italic) is given
\* the renderings of all the children of the node in order, concatenated,
\* never the raw source text: the hook of an italic nested in a bold has
\* been invoked before the bold's hook and its text is inside the bold
\* hook's argument.
C16_BoldGivenRenderedChildren ==
    (DoneOk /\ OneEmph)
    => /\ TheEmphCall.hook = "transform_" \o TheEmph.rule
       /\ TheEmphCall.args
            = <<Concat([i \in 1..Len(TheEmph.kids) |-> Alone(transformer.kind, TheEmph.kids[i])])>>
       /\ (transformer.kind = "Upper" /\ TheEmph.kids # <<>>)
            => TheEmphCall.args # <<TheEmph.str>>
       /\ Cardinality({i \in 1..(Len(Log) - 3) :
                          InPass2(i) /\ Log[i].hook \in {"transform_bold", "transform_italic"}})
            = Cardinality({i \in 1..Len(TheEmph.kids) :
                              TheEmph.kids[i].rule \in {"bold", "italic"}})

C16_Witness ==
    /\ DoneOk
    /\ transformer.kind = "Tagging"
    /\ OneEmph
    /\ TheEmph = Bold(<<Text(<<"a">>), Italic(<<Text(<<"c">>)>>), Text(<<"a">>)>>)
    /\ ret.val = <<"B", "O", "L", "D", " ", "a", "I", "T", "A", "L", "I", "C", " ", "c", " ",
                   "I", "T", "A", "L", "I", "C", "a", " ", "B", "O", "L", "D">>

-----------------------------------------------------------------------------
\* the hook of the construct the document holds, and the inner text
HookOfDoc == IF input.tree \in CommentDocs THEN "transform_comment" ELSE "transform_strikethrough"

InnerOfDoc == IF input.tree \in CommentDocs THEN <<"c">> ELSE <<"a">>

\* C17: a comment in the input is rendered by invoking transform_comment
\* with the comment's inner text, a strikethrough by invoking
\* transform_strikethrough with its inner text, and the text the hook
\* returns is the construct's output.
C17_CommentAndStrikeHooksInvoked ==
    (pc = "done" /\ input.parsed = "ok" /\ input.tree \in CommentDocs \cup StrikeDocs)
    => /\ ret.tag = "Ok"
       /\ Len(CallsOf(HookOfDoc)) = 1
       /\ CallsOf(HookOfDoc)[1].args = <<InnerOfDoc>>
       /\ ret.val = CallsOf(HookOfDoc)[1].ret

-----------------------------------------------------------------------------
\* the constructs C18 names, by the name of their hooks
PeekedConstructs ==
    {"bold", "italic", "link", "reflink", "quote", "list", "list_element",
     "paragraph", "image"}

\* the arguments of the calls, in order
ArgsOf(calls) == [i \in 1..Len(calls) |-> calls[i].args]

\* C18: with the renderer that keeps every default hook, the arguments the
\* peek hook of a bold, italic, link, reference-link, quote, list, list
\* element, paragraph or image is given in pass 1 are the arguments its
\* transform hook is given in pass 2: the peek hook sees the construct's
\* resolved content.
C18_PeekSeesResolvedContent ==
    (DoneOk /\ transformer.kind = "Default" /\ OneBlock({"paragraph", "list", "quote"}))
    => \A c \in PeekedConstructs :
            ArgsOf(CallsOf("peek_" \o c)) = ArgsOf(CallsOf("transform_" \o c))

-----------------------------------------------------------------------------
\* the inline-code children of the paragraph
CodeKids == {i \in 1..Len(TheBlock.kids) : TheBlock.kids[i].rule = "inline_code"}

\* how many times the character occurs in the string
Occurrences(ch, s) == Cardinality({i \in 1..Len(s) : s[i] = ch})

RECURSIVE HoldsText(_, _)
\* a leaf below the node, outside inline code, holds the string
HoldsText(node, s) ==
    /\ node.rule # "inline_code"
    /\ \/ node.kids = <<>> /\ node.str = s
       \/ \E i \in 1..Len(node.kids) : HoldsText(node.kids[i], s)

\* no leaf of the paragraph but the code child holds the text of the code child
OnlyCodeHoldsC == ~HoldsText(TheBlock, <<"c">>)

\* C19: the inline-code hook of each pass is called once for each inline-code
\* node with the raw text of the node's single child, the text hook of
\* neither pass is called for that child, and a renderer whose text hook
\* upper-cases leaves the code content as it was written.
C19_InlineCodePassedRaw ==
    (DoneOk /\ OneBlock({"paragraph"}))
    => /\ \A h \in {"peek_inline_code", "transform_inline_code"} :
            /\ Len(CallsOf(h)) = Cardinality(CodeKids)
            /\ \A i \in 1..Len(CallsOf(h)) : CallsOf(h)[i].args = <<<<"c">>>>
       /\ OnlyCodeHoldsC
            => \A h \in {"peek_text", "transform_text"} :
                    \A i \in 1..Len(CallsOf(h)) : CallsOf(h)[i].args # <<<<"c">>>>
       /\ transformer.kind = "Upper"
            => Occurrences("c", ret.val) = Cardinality(CodeKids)

\* "a`c`**b**" under the upper-casing renderer: both text children went to
\* the text hook, the code child did not, and the output keeps its "c"
C19_Witness ==
    /\ DoneOk /\ OneBlock({"paragraph"}) /\ transformer.kind = "Upper"
    /\ TheBlock.kids = <<Text(<<"a">>), InlineCode(<<"c">>), Bold(<<Text(<<"b">>)>>)>>
    /\ Len(CallsOf("transform_text")) = 2
    /\ Len(CallsOf("transform_inline_code")) = 1
    /\ ret.val = <<"A", "c", "B">>

-----------------------------------------------------------------------------
\* the soft line breaks of the paragraph
SoftBreaks == {i \in 1..Len(TheBlock.kids) : TheBlock.kids[i] = SoftBreak}

\* C20: a soft line break yields at most one space: with the renderer that
\* keeps every default hook, the output of a paragraph holds no more spaces
\* than the paragraph has soft line breaks, also when the sibling after the
\* break is a reference link, which resolves its label on a cloned state.
C20_OneSpacePerSoftBreak ==
    (DoneOk /\ transformer.kind = "Default" /\ OneBlock({"paragraph"}))
    => Occurrences(" ", ret.val) <= Cardinality(SoftBreaks)

-----------------------------------------------------------------------------
\* the document is one code block without body lines, tagged or not
EmptyCodeblock ==
    /\ OneBlock({"codeblock"})
    /\ \A i \in 1..Len(TheBlock.kids) : TheBlock.kids[i].rule # "codeblock_line"

\* C21: a code block without body lines, with or without a language tag,
\* renders without failure: the render returns Ok and the code-block hook of
\* each pass was called once, with the tag and an empty body.
C21_EmptyCodeblockRenders ==
    (pc = "done" /\ EmptyCodeblock)
    => /\ ret.tag = "Ok"
       /\ \A h \in {"peek_codeblock", "transform_codeblock"} :
            /\ Len(CallsOf(h)) = 1
            /\ CallsOf(h)[1].args = <<CodeblockLang(TheBlock.kids), <<>> >>

-----------------------------------------------------------------------------
\* the log entry i is the call of a peek hook
IsPeekCall(i) == Log[i].hook \notin TransformHooks \cup {"finished"}

\* C22: when a render call through either entry point has succeeded, the
\* finished hook was called exactly twice, finished(true) then
\* finished(false); every peek hook was called before finished(true), and
\* finished(false) is the last call the renderer got.
C22_FinishedCalledTwice ==
    DoneOk
    => /\ Len(CallsOf("finished")) = 2
       /\ CallsOf("finished")[1].args = <<TRUE>>
       /\ CallsOf("finished")[2].args = <<FALSE>>
       /\ Log[Len(Log)].hook = "finished" /\ Log[Len(Log)].args = <<FALSE>>
       /\ \A i \in 1..Len(Log) : IsPeekCall(i) => InPass1(i)
       /\ \A i \in 1..Len(Log) : InPass2(i) => (i = Len(Log) \/ Log[i].hook \in TransformHooks)

\* a render through the stream entry point that succeeded, with text hooks
\* called in both passes around finished(true)
C22_Witness ==
    /\ DoneOk /\ input.entry = "stream"
    /\ CallsOf("peek_text") # <<>> /\ CallsOf("transform_text") # <<>>
    /\ \E i \in 2..(Len(Log) - 2) :
            IsFinishedPeek(i) /\ IsPeekCall(i - 1) /\ Log[i + 1].hook \in TransformHooks

-----------------------------------------------------------------------------
RECURSIVE RawTags(_, _)
\* the map of the key/value pairs as the source has them
RawTags(all_data, md) ==
    IF all_data = <<>> THEN md
    ELSE RawTags(Tail(all_data),
                 MapInsert(md, Head(all_data).kids[1].str, Head(all_data).kids[2].str))

\* the document is one paragraph of one image with a metadata block
OneTaggedImage ==
    /\ OneBlock({"paragraph"})
    /\ Len(TheBlock.kids) = 1
    /\ TheBlock.kids[1] \in TaggedImages

\* C23: the metadata map transform_image is handed holds the keys and values
\* as the source has them, whatever the renderer's text hook does: the
\* upper-casing renderer is handed the map the pass-through renderer is.
C23_MetadataIsRawText ==
    (DoneOk /\ OneTaggedImage)
    => /\ Len(CallsOf("transform_image")) = 1
       /\ CallsOf("transform_image")[1].args[3] = RawTags(TheBlock.kids[1].kids[3].kids, EmptyMap)

-----------------------------------------------------------------------------
\* C24: the hand-written parser turns a link embedded in raw text into
\* RawText(the text before the opening bracket) followed by
\* Link(RawText(link text), url), also when line breaks separate the link
\* text, "]", "(" and the url, the link text and the url then keeping their
\* newlines.
C24_LinkInRawTextParsed ==
    \A c \in LinkCases :
        (pc = "done" /\ input.md_text = Compose(c))
        => /\ ret.tag = "Ok"
           /\ Len(ret.val) >= 2
           /\ ret.val[1] = RawText(c.before)
           /\ ret.val[2] = MarkdownNodeLink(wrap_mdnode(RawText(c.text)), c.url \o c.tail)

=============================================================================
